---- MODULE Spec2Model ----
(***************************************************************************)
(* Model of the Speller decoder of models/speller.py: construction         *)
(* (Speller.__init__), one decoding time step (Speller._forward_step) and  *)
(* the decode call (Speller.forward) with its three branches: beam search, *)
(* teacher forcing and free running.                                       *)
(*                                                                         *)
(* Tensors are modelled by what the code reads from them.  A token batch   *)
(* (batch, seq_len) is a sequence of rows, each a sequence of token ids.   *)
(* A hidden state (layers, batch, hidden) is one abstract value per row.   *)
(* A per-step output (batch, vocab) is one score function Vocab -> Int per *)
(* row.  The library layers (embedding, rnn, attention, linear,            *)
(* log_softmax) are deterministic functions of their inputs and of the     *)
(* learnt weights; the weights are a parameter drawn at construction.      *)
(***************************************************************************)
EXTENDS Integers, Sequences, FiniteSets, TLC

\* ------------------------------------------------------------- bounds
MaxBatch == 2
MaxLen == 3
VocabSize == 3
MaxK == 2

\* ------------------------------------------------------------- domains
Vocab == 0 .. (VocabSize - 1)
\* sos_id / eos_id handed to the constructor (spec.md section 8 scenario)
sos_id == 0
eos_id == 1
\* abstract values of a hidden-state row
Hidden == {0, 1}
\* abstract value of the listener_outputs tensor
EncOutputs == {1}
\* abstract values of the learnt weights
Weights == {0, 1}
\* random.random() returns a float in [0, 1): the values 0.0 and 0.5, in halves
RandVals == {0, 1}
\* teacher_forcing_ratio in [0, 1]: the values 0.0, 0.5 and 1.0, in halves
Ratios == {0, 1, 2}

None == << >>
Some(x) == << x >>

\* rnn_cell strings handed to the constructor, as sequences of characters
Kinds ==
  { <<"l","s","t","m">>, <<"g","r","u">>, <<"r","n","n">>,
    <<"G","R","U">>, <<"L","s","t","m">>, <<"c","n","n">>, << >> }

VARIABLES
  pc,                    \* position: new, ctor_failed, idle, beam, tf, free, stack, done, raised
  rnn_cell_arg,          \* the rnn_cell argument of __init__ (None once __init__ returned)
  rnn_cell,              \* self.rnn_cell: "LSTM", "GRU", "RNN" ("none" before construction)
  self_max_len,          \* self.max_len
  k,                     \* self.k
  weights,               \* the parameters of embedding / rnn / attention / out
  inputs,                \* forward argument
  listener_hidden,       \* forward argument
  listener_outputs,      \* forward argument
  teacher_forcing_ratio, \* forward argument (in halves)
  use_beam_search,       \* forward argument
  rand,                  \* the value random.random() returned in this call
  draws,                 \* number of random.random() calls made in this call
  uniform,               \* the value uniform_(-0.1, 0.1) produced in this call
  max_len,               \* local max_len of forward
  speller_hidden,        \* local speller_hidden of forward
  use_teacher_forcing,   \* local use_teacher_forcing of forward
  input,                 \* local input of the free-running loop
  di,                    \* loop index of the free-running loop
  decode_results,        \* local decode_results
  y_hats,                \* local / returned y_hats
  logit,                 \* local / returned logit
  calls,                 \* history: arguments of the _forward_step calls made by forward
  prev                   \* history: the previous call this one is compared with

vars == << pc, rnn_cell_arg, rnn_cell, self_max_len, k, weights, inputs,
           listener_hidden, listener_outputs, teacher_forcing_ratio,
           use_beam_search, rand, draws, uniform, max_len, speller_hidden,
           use_teacher_forcing, input, di, decode_results, y_hats, logit,
           calls, prev >>

ctorVars == << rnn_cell, self_max_len, k, weights, rnn_cell_arg >>

\* ------------------------------------------------------------- helpers
RECURSIVE Lower(_)
LowerChar(c) ==
  CASE c = "G" -> "g" [] c = "R" -> "r" [] c = "U" -> "u"
    [] c = "L" -> "l" [] c = "S" -> "s" [] c = "T" -> "t"
    [] c = "M" -> "m" [] c = "N" -> "n" [] c = "C" -> "c"
    [] OTHER -> c
Lower(s) == IF s = << >> THEN << >> ELSE << LowerChar(Head(s)) >> \o Lower(Tail(s))

\* (variant: no check of the kind, any string is taken)
KindAlwaysSupported(kind) == TRUE

\* the assert of __init__
KindSupported(kind) ==
  \/ Lower(kind) = <<"l","s","t","m">>
  \/ Lower(kind) = <<"g","r","u">>
  \/ Lower(kind) = <<"r","n","n">>

\* self.rnn_cell = nn.LSTM if ... else nn.GRU if ... else nn.RNN
CellClass(kind) ==
  IF Lower(kind) = <<"l","s","t","m">> THEN "LSTM"
  ELSE IF Lower(kind) = <<"g","r","u">> THEN "GRU"
  ELSE "RNN"

\* index of the largest score, the first one among equal scores
BestOf(dist, S) ==
  CHOOSE v \in S : \A u \in S : dist[u] < dist[v] \/ (dist[u] = dist[v] /\ u >= v)

\* tensor.topk(1)[1] and tensor.max(-1)[1] over the vocabulary dimension
ArgMax(dist) == BestOf(dist, Vocab)

\* self.rnn on one position: the recurrent update of one row's state
Cell(w, tok, h) == (h + tok + w) % Cardinality(Hidden)

\* attention + self.out + log_softmax on one position of one row: the score
\* (an integer standing for a log-probability, 0 the largest) of every token
LogSoftmax(w, h, enc) == [v \in Vocab |-> 0 - ((v + h + enc + w) % VocabSize)]

\* self.rnn(embedded, speller_hidden)[0] on one row: the rnn output at every
\* position; the state is carried from position to position inside the call
RECURSIVE RnnOutputs(_, _, _)
RnnOutputs(w, toks, h) ==
  IF toks = << >> THEN << >>
  ELSE LET h1 == Cell(w, Head(toks), h)
       IN  << h1 >> \o RnnOutputs(w, Tail(toks), h1)

\* _forward_step: predicted_softmax[b][j] for input (batch, output_size)
ForwardStep(w, inp, hid, enc) ==
  [b \in 1 .. Len(inp) |->
     [j \in 1 .. Len(inp[b]) |-> LogSoftmax(w, RnnOutputs(w, inp[b], hid[b])[j], enc)]]

\* ------------------------------------------------------------- beam search
\* models/beam.py (Beam.search), after spec.md section 4.4.  A hypothesis is
\* [seq, score, hidden, term]; a beam is a sequence of at most kk hypotheses.
RECURSIVE TopTokens(_, _, _)
TopTokens(dist, n, S) ==
  IF n = 0 \/ S = {} THEN << >>
  ELSE LET v == BestOf(dist, S)
       IN  << v >> \o TopTokens(dist, n - 1, S \ {v})

\* the candidates one hypothesis contributes: itself when terminated, else its
\* top-kk extensions, each carrying the hidden state its parent's step produced
Expand(w, hyp, kk, enc) ==
  IF hyp.term THEN << hyp >>
  ELSE LET h1   == Cell(w, hyp.seq[Len(hyp.seq)], hyp.hidden)
           dist == LogSoftmax(w, h1, enc)
           toks == TopTokens(dist, kk, Vocab)
       IN  [i \in 1 .. Len(toks) |->
              [seq    |-> Append(hyp.seq, toks[i]),
               score  |-> hyp.score + dist[toks[i]],
               hidden |-> h1,
               term   |-> toks[i] = eos_id]]

RECURSIVE Candidates(_, _, _, _)
Candidates(w, beam, kk, enc) ==
  IF beam = << >> THEN << >>
  ELSE Expand(w, Head(beam), kk, enc) \o Candidates(w, Tail(beam), kk, enc)

\* the n best candidates by score, equal scores in index order
RECURSIVE SelectTop(_, _)
SelectTop(cands, n) ==
  IF n = 0 \/ cands = << >> THEN << >>
  ELSE LET i == CHOOSE i \in 1 .. Len(cands) : \A j \in 1 .. Len(cands) :
                  \/ cands[j].score < cands[i].score
                  \/ (cands[j].score = cands[i].score /\ j >= i)
           rest == SubSeq(cands, 1, i - 1) \o SubSeq(cands, i + 1, Len(cands))
       IN  << cands[i] >> \o SelectTop(rest, n - 1)

RECURSIVE BeamLoop(_, _, _, _, _, _)
BeamLoop(w, beam, kk, enc, t, maxlen) ==
  IF t >= maxlen \/ \A i \in 1 .. Len(beam) : beam[i].term THEN beam
  ELSE BeamLoop(w, SelectTop(Candidates(w, beam, kk, enc), kk), kk, enc, t + 1, maxlen)

\* Beam.search for one batch element: the best hypothesis without its first token
BeamSearchRow(w, kk, tok0, h0, enc, maxlen) ==
  LET seed == [seq |-> << tok0 >>, score |-> 0, hidden |-> h0, term |-> FALSE]
      init == [i \in 1 .. kk |-> seed]
  IN  Tail(BeamLoop(w, init, kk, enc, 0, maxlen)[1].seq)

\* Beam(...).search(inputs, listener_outputs) on the batch
BeamSearch(w, kk, inp, hid, enc, maxlen) ==
  [b \in 1 .. Len(inp) |-> BeamSearchRow(w, kk, inp[b][1], hid[b], enc, maxlen)]

\* ------------------------------------------------------------- forward, pure parts
\* inputs.size(0), inputs.size(1)
BatchSize(inp) == Len(inp)
SeqLen(inp) == Len(inp[1])

\* (variant: the decoder starts from the encoder's final hidden state)
InitHiddenFromListener(lh, u, batch) == [b \in 1 .. batch |-> lh]

\* speller_hidden = FloatTensor(layer_size, batch_size, hidden_size).uniform_(-0.1, 0.1):
\* fresh noise u, whatever listener_hidden is
InitHidden(lh, u, batch) == [b \in 1 .. batch |-> u]

\* (variant: non-strict comparison)
UseTeacherForcingNonStrict(r, ratio) == r <= ratio

\* use_teacher_forcing = True if random.random() < teacher_forcing_ratio else False
UseTeacherForcing(r, ratio) == r < ratio

\* (variant: the teacher-forcing test comes before the beam-search test)
BranchTeacherFirst(beam, tf) == IF tf THEN "tf" ELSE IF beam THEN "beam" ELSE "free"

\* the if / else cascade of forward
Branch(beam, tf) == IF beam THEN "beam" ELSE IF tf THEN "tf" ELSE "free"

\* (variant: inputs[:, 1:], the first token removed instead of the last)
DropFirst(inp) == [b \in 1 .. Len(inp) |-> SubSeq(inp[b], 2, Len(inp[b]))]

\* inputs[:, :-1]
DropLast(inp) == [b \in 1 .. Len(inp) |-> SubSeq(inp[b], 1, Len(inp[b]) - 1)]

\* (variant: decoding always starts from sos_id)
FirstColumnSos(inp) == [b \in 1 .. Len(inp) |-> << sos_id >>]

\* inputs[:, 0].unsqueeze(1)
FirstColumn(inp) == [b \in 1 .. Len(inp) |-> << inp[b][1] >>]

\* decode_results[-1].topk(1)[1]
NextInput(step_output) == [b \in 1 .. Len(step_output) |-> << ArgMax(step_output[b]) >>]

\* torch.stack(decode_results, dim=1): logit[b][t] = decode_results[t][b]
Stacked(results) ==
  [b \in 1 .. Len(results[1]) |-> [t \in 1 .. Len(results) |-> results[t][b]]]

\* logit.max(-1)[1]
MaxIndices(lg) == [b \in 1 .. Len(lg) |-> [t \in 1 .. Len(lg[b]) |-> ArgMax(lg[b][t])]]

\* the free-running loop and the final max of forward on one row, as a function
RECURSIVE FreeRunningRow(_, _, _, _, _)
FreeRunningRow(w, tok, h0, enc, n) ==
  IF n = 0 THEN << >>
  ELSE LET v == ArgMax(LogSoftmax(w, Cell(w, tok, h0), enc))
       IN  << v >> \o FreeRunningRow(w, v, h0, enc, n - 1)

\* ------------------------------------------------------------- input sets
\* a batch of B rows of length L: row 1 is any token sequence that starts with
\* sos_id, as the targets of the training loop do; row b is row 1 with every
\* token shifted by b-1, so that the rows of a batch differ in every column
Batches(B, L) ==
  { [b \in 1 .. B |-> [j \in 1 .. L |-> (row[j] + (b - 1)) % VocabSize]] :
      row \in {r \in [1 .. L -> Vocab] : r[1] = sos_id} }

\* ------------------------------------------------------------- state machine
Init ==
  /\ pc = "new"
  /\ rnn_cell_arg \in Kinds
  /\ rnn_cell = "none"
  /\ self_max_len \in {MaxLen}
  /\ k \in {1, MaxK}
  /\ weights \in Weights
  /\ inputs = None
  /\ listener_hidden = 0
  /\ listener_outputs = 0
  /\ teacher_forcing_ratio = 0
  /\ use_beam_search = FALSE
  /\ rand = 0
  /\ draws = 0
  /\ uniform = 0
  /\ max_len = 0
  /\ speller_hidden = None
  /\ use_teacher_forcing = FALSE
  /\ input = None
  /\ di = 0
  /\ decode_results = << >>
  /\ y_hats = None
  /\ logit = None
  /\ calls = << >>
  /\ prev = None

\* Speller.__init__
Construct ==
  /\ pc = "new"
  /\ IF KindSupported(rnn_cell_arg)
       THEN /\ rnn_cell' = CellClass(rnn_cell_arg)
            /\ pc' = "idle"
       ELSE /\ rnn_cell' = rnn_cell
            /\ pc' = "ctor_failed"
  /\ rnn_cell_arg' = None
  /\ UNCHANGED << self_max_len, k, weights, inputs, listener_hidden,
                  listener_outputs, teacher_forcing_ratio, use_beam_search,
                  rand, draws, uniform, max_len, speller_hidden,
                  use_teacher_forcing, input, di, decode_results, y_hats,
                  logit, calls, prev >>

\* forward, from its entry to the branch it takes: the locals are set, the
\* hidden state is drawn, the coin is flipped once
Enter(inp, lh, enc, ratio, beam, r, u) ==
  /\ inputs' = inp
  /\ listener_hidden' = lh
  /\ listener_outputs' = enc
  /\ teacher_forcing_ratio' = ratio
  /\ use_beam_search' = beam
  /\ y_hats' = None
  /\ logit' = None
  /\ decode_results' = << >>
  /\ max_len' = SeqLen(inp) - 1
  /\ uniform' = u
  /\ speller_hidden' = InitHidden(lh, u, BatchSize(inp))
  /\ rand' = r
  /\ draws' = 1
  /\ use_teacher_forcing' = UseTeacherForcing(r, ratio)
  /\ pc' = Branch(beam, UseTeacherForcing(r, ratio))
  /\ input' = IF Branch(beam, UseTeacherForcing(r, ratio)) = "free"
                THEN FirstColumn(inp) ELSE None
  /\ di' = 0
  /\ calls' = << >>
  /\ UNCHANGED ctorVars

\* a decode call on a constructed decoder
Forward ==
  /\ pc = "idle"
  /\ \E B \in {1, MaxBatch}, L \in 1 .. MaxLen :
       \E inp \in Batches(B, L), lh \in Hidden, enc \in EncOutputs,
          ratio \in Ratios, beam \in BOOLEAN, r \in RandVals, u \in Hidden :
         Enter(inp, lh, enc, ratio, beam, r, u)
  /\ prev' = None

\* the same call made again with another listener_hidden: same tokens, encoder
\* outputs, weights, ratio, flag and random draws
ForwardOtherListenerHidden ==
  /\ pc = "done"
  /\ prev = None
  /\ \E lh \in Hidden \ {listener_hidden} :
       Enter(inputs, lh, listener_outputs, teacher_forcing_ratio,
             use_beam_search, rand, uniform)
  /\ prev' = Some([listener_hidden |-> listener_hidden, branch |-> Branch(use_beam_search, use_teacher_forcing),
                   calls |-> calls, y_hats |-> y_hats, logit |-> logit])

\* the beam-search branch
BeamSearchCall ==
  /\ pc = "beam"
  /\ y_hats' = Some(BeamSearch(weights, k, FirstColumn(inputs), speller_hidden,
                               listener_outputs, max_len))
  /\ pc' = "done"
  /\ UNCHANGED << ctorVars, inputs, listener_hidden, listener_outputs,
                  teacher_forcing_ratio, use_beam_search, rand, draws, uniform,
                  max_len, speller_hidden, use_teacher_forcing, input, di,
                  decode_results, logit, calls, prev >>

\* the teacher-forced branch: one _forward_step call on the shifted inputs
TeacherForced ==
  /\ pc = "tf"
  /\ LET shifted == DropLast(inputs)
         predicted_softmax == ForwardStep(weights, shifted, speller_hidden, listener_outputs)
     IN  /\ calls' = Append(calls, [input |-> shifted, speller_hidden |-> speller_hidden])
         /\ decode_results' =
              [t \in 1 .. Len(shifted[1]) |->
                 [b \in 1 .. Len(shifted) |-> predicted_softmax[b][t]]]
  /\ pc' = "stack"
  /\ UNCHANGED << ctorVars, inputs, listener_hidden, listener_outputs,
                  teacher_forcing_ratio, use_beam_search, rand, draws, uniform,
                  max_len, speller_hidden, use_teacher_forcing, input, di,
                  y_hats, logit, prev >>

\* (variant: the loop is left as soon as a row emits eos_id)
FreeStepStopsOnEos ==
  /\ pc = "free"
  /\ di < max_len
  /\ LET predicted_softmax == ForwardStep(weights, input, speller_hidden, listener_outputs)
         step_output == [b \in 1 .. Len(input) |-> predicted_softmax[b][1]]
     IN  /\ calls' = Append(calls, [input |-> input, speller_hidden |-> speller_hidden])
         /\ decode_results' = Append(decode_results, step_output)
         /\ input' = NextInput(step_output)
         /\ di' = IF \E b \in 1 .. Len(input) : ArgMax(step_output[b]) = eos_id
                  THEN max_len ELSE di + 1
  /\ UNCHANGED << pc, ctorVars, inputs, listener_hidden, listener_outputs,
                  teacher_forcing_ratio, use_beam_search, rand, draws, uniform,
                  max_len, speller_hidden, use_teacher_forcing, y_hats, logit,
                  prev >>

\* one iteration of the free-running loop
FreeStep ==
  /\ pc = "free"
  /\ di < max_len
  /\ LET predicted_softmax == ForwardStep(weights, input, speller_hidden, listener_outputs)
         step_output == [b \in 1 .. Len(input) |-> predicted_softmax[b][1]]
     IN  /\ calls' = Append(calls, [input |-> input, speller_hidden |-> speller_hidden])
         /\ decode_results' = Append(decode_results, step_output)
         /\ input' = NextInput(step_output)
  /\ di' = di + 1
  /\ UNCHANGED << pc, ctorVars, inputs, listener_hidden, listener_outputs,
                  teacher_forcing_ratio, use_beam_search, rand, draws, uniform,
                  max_len, speller_hidden, use_teacher_forcing, y_hats, logit,
                  prev >>

\* torch.stack(decode_results) and the max over the vocabulary; torch.stack
\* raises on an empty list
Stack ==
  /\ pc = "stack" \/ (pc = "free" /\ di >= max_len)
  /\ IF decode_results = << >>
       THEN /\ pc' = "raised"
            /\ UNCHANGED << logit, y_hats >>
       ELSE /\ logit' = Some(Stacked(decode_results))
            /\ y_hats' = Some(MaxIndices(Stacked(decode_results)))
            /\ pc' = "done"
  /\ UNCHANGED << ctorVars, inputs, listener_hidden, listener_outputs,
                  teacher_forcing_ratio, use_beam_search, rand, draws, uniform,
                  max_len, speller_hidden, use_teacher_forcing, input, di,
                  decode_results, calls, prev >>

\* return y_hats, logit (or the exception leaves forward): the locals die
Return ==
  /\ pc \in {"done", "raised"}
  /\ pc' = "idle"
  /\ inputs' = None
  /\ listener_hidden' = 0
  /\ listener_outputs' = 0
  /\ teacher_forcing_ratio' = 0
  /\ use_beam_search' = FALSE
  /\ rand' = 0
  /\ draws' = 0
  /\ uniform' = 0
  /\ max_len' = 0
  /\ speller_hidden' = None
  /\ use_teacher_forcing' = FALSE
  /\ input' = None
  /\ di' = 0
  /\ decode_results' = << >>
  /\ y_hats' = None
  /\ logit' = None
  /\ calls' = << >>
  /\ prev' = None
  /\ UNCHANGED ctorVars

Next ==
  \/ Construct
  \/ Forward
  \/ ForwardOtherListenerHidden
  \/ BeamSearchCall
  \/ TeacherForced
  \/ FreeStep
  \/ Stack
  \/ Return

Spec == Init /\ [][Next]_vars

\* ------------------------------------------------------------- properties
InCall == pc \in {"beam", "tf", "free", "stack", "done", "raised"}
TeacherForcedDone == pc = "done" /\ ~use_beam_search /\ use_teacher_forcing
FreeRunningDone == pc = "done" /\ ~use_beam_search /\ ~use_teacher_forcing
Rows == 1 .. Len(inputs)
\* v is a largest entry of dist, and the first such
IsFirstMax(dist, v) ==
  \A u \in DOMAIN dist : dist[u] < dist[v] \/ (dist[u] = dist[v] /\ u >= v)

\* C1: a teacher-forced call on a target of length L >= 2 makes a single step
\* call, on the target without its last token, and returns L-1 distributions
\* and L-1 tokens for every batch element.
C1_TeacherForcedLength ==
  (TeacherForcedDone /\ SeqLen(inputs) >= 2) =>
     /\ Len(calls) = 1
     /\ calls[1].input = [b \in Rows |-> SubSeq(inputs[b], 1, SeqLen(inputs) - 1)]
     /\ Len(logit[1]) = Len(inputs)
     /\ Len(y_hats[1]) = Len(inputs)
     /\ \A b \in Rows :
          /\ Len(logit[1][b]) = SeqLen(inputs) - 1
          /\ Len(y_hats[1][b]) = SeqLen(inputs) - 1

C1_Witness ==
  /\ TeacherForcedDone
  /\ SeqLen(inputs) = MaxLen
  /\ Len(inputs) = MaxBatch
  /\ Len(logit[1][MaxBatch]) = MaxLen - 1

\* C2: a free-running call returns self.max_len - 1 steps, whatever the length
\* of the token sequence given to the call.
C2_FreeRunsSelfMaxLen ==
  FreeRunningDone =>
     \A b \in Rows : /\ Len(logit[1][b]) = self_max_len - 1
                     /\ Len(y_hats[1][b]) = self_max_len - 1

\* C3: the free-running loop never stops early: while di < max_len the only
\* step goes on to di + 1 with the same budget max_len and feeds back the
\* argmax (eos_id included), and the sequence returned at the end has all
\* max_len tokens, those after an eos_id included.
C3_NoEarlyStop ==
  [][ /\ (pc = "free" /\ di < max_len) =>
           /\ pc' = "free"
           /\ di' = di + 1
           /\ max_len' = max_len
           /\ Len(decode_results') = di'
           /\ \A b \in Rows :
                \E v \in Vocab : /\ IsFirstMax(decode_results'[di'][b], v)
                                 /\ input'[b] = << v >>
      /\ (pc = "free" /\ pc' = "done") =>
           /\ max_len = SeqLen(inputs) - 1
           /\ \A b \in Rows :
                /\ Len(y_hats'[1][b]) = max_len
                /\ \A t \in 1 .. max_len :
                     IsFirstMax(decode_results[t][b], y_hats'[1][b][t])
    ]_vars

\* a finished free-running call in which eos_id was emitted, fed back as the
\* next input, and followed by further tokens in the returned sequence
C3_Witness ==
  /\ FreeRunningDone
  /\ \E b \in Rows : \E t \in 1 .. (Len(calls) - 1) :
       /\ y_hats[1][b][t] = eos_id
       /\ calls[t + 1].input[b] = << eos_id >>
       /\ Len(y_hats[1][b]) > t

\* C4: a call with use_beam_search goes to the beam search only: forward makes
\* no step call of its own, takes neither other branch, returns the engine's
\* sequence and no distributions, whatever the ratio and the coin are.
C4_BeamDelegates ==
  (InCall /\ use_beam_search) =>
     /\ pc \in {"beam", "done"}
     /\ calls = << >>
     /\ decode_results = << >>
     /\ logit = None
     /\ pc = "done" =>
          y_hats = Some(BeamSearch(weights, k, [b \in Rows |-> << inputs[b][1] >>],
                                   speller_hidden, listener_outputs, max_len))

C4_Witness ==
  /\ pc = "done"
  /\ use_beam_search
  /\ rand < teacher_forcing_ratio
  /\ logit = None
  /\ y_hats # None

C6_HiddenCarried ==
  (InCall /\ ~use_beam_search /\ ~use_teacher_forcing) =>
     \A t \in 2 .. Len(calls) : \A b \in Rows :
        calls[t].speller_hidden[b] =
          Cell(weights, calls[t - 1].input[b][1], calls[t - 1].speller_hidden[b])

C8_KindCheckedAtConstruction ==
  [][ /\ pc = "new" =>
           IF Lower(rnn_cell_arg) \in { <<"l","s","t","m">>, <<"g","r","u">>, <<"r","n","n">> }
             THEN /\ pc' = "idle"
                  /\ rnn_cell' = (CASE Lower(rnn_cell_arg) = <<"l","s","t","m">> -> "LSTM"
                                    [] Lower(rnn_cell_arg) = <<"g","r","u">> -> "GRU"
                                    [] Lower(rnn_cell_arg) = <<"r","n","n">> -> "RNN")
             ELSE /\ pc' = "ctor_failed"
                  /\ rnn_cell' = "none"
      /\ pc = "ctor_failed" => pc' = "ctor_failed"
      /\ pc # "new" => rnn_cell' = rnn_cell
      /\ pc' \in {"idle", "beam", "tf", "free", "stack", "done", "raised"} =>
           rnn_cell' \in {"LSTM", "GRU", "RNN"}
    ]_vars

C8_Witness ==
  /\ pc = "ctor_failed"
  /\ rnn_cell = "none"
  /\ inputs = None

\* C9: with beam width 1 the beam-search branch returns the sequence the
\* free-running branch returns for the same first token, initial hidden state
\* and encoder outputs.
C9_BeamOneIsGreedy ==
  (pc = "done" /\ use_beam_search /\ k = 1) =>
     y_hats = Some([b \in Rows |->
                      FreeRunningRow(weights, inputs[b][1], speller_hidden[b],
                                     listener_outputs, max_len)])

\* C10: in a free-running call step 1 is fed column 0 of the inputs, step t+1
\* the argmax of step t; the returned sequence is the per-step argmax of the
\* returned distributions, so token t is what step t+1 was fed, and sequence
\* and distributions have as many steps as there were step calls.
C10_FreeRunningFeedback ==
  FreeRunningDone =>
     \A b \in Rows :
        /\ Len(y_hats[1][b]) = Len(calls)
        /\ Len(logit[1][b]) = Len(calls)
        /\ calls[1].input[b] = << inputs[b][1] >>
        /\ \A t \in 1 .. Len(calls) :
             /\ logit[1][b][t] =
                  ForwardStep(weights, calls[t].input, calls[t].speller_hidden,
                              listener_outputs)[b][1]
             /\ IsFirstMax(logit[1][b][t], y_hats[1][b][t])
        /\ \A t \in 1 .. (Len(calls) - 1) :
             calls[t + 1].input[b] = << y_hats[1][b][t] >>
        /\ y_hats[1][b] = FreeRunningRow(weights, inputs[b][1], speller_hidden[b],
                                         listener_outputs, max_len)

C10_Witness ==
  /\ FreeRunningDone
  /\ Len(inputs) = MaxBatch
  /\ Len(calls) = MaxLen - 1
  /\ inputs[MaxBatch][1] # sos_id
  /\ calls[2].input[1] = << y_hats[1][1][1] >>

====
